---- MODULE Spec2Model ----
(***************************************************************************)
(* Model of src/lib.rs: the propositional formula parser and evaluator.    *)
(*                                                                         *)
(* A Rust `char` is modelled as a one-element string and a `&str` as a     *)
(* sequence of them.  The non-ASCII symbols of the formula alphabet are    *)
(* written with ASCII stand-ins:                                           *)
(*     "&"  U+2227 (and)        "|"  U+2228 (or)                           *)
(*     ">"  U+2192 (if-then)    "#"  U+2194 (iff)                          *)
(*     "~"  U+00AC (not)                                                   *)
(* A Proposition is a tuple whose first element names the variant:         *)
(*     <<"AtomTrue">>, <<"AtomFalse">>,                                    *)
(*     <<"And", l, r>>, <<"Or", l, r>>, <<"IfThen", l, r>>, <<"Iff", l, r>>*)
(*     <<"Not", p>>, <<"Possibly", p>>, <<"Necessarily", p>>,              *)
(*     <<"Parenthesised", p>>.                                             *)
(* A panic (unwrap on None, panic!) is the value Panic; Option::None is    *)
(* the value None.                                                         *)
(***************************************************************************)
EXTENDS Integers, Sequences, FiniteSets, TLC

VARIABLES input, pc, atom_map, tree, result

vars == <<input, pc, atom_map, tree, result>>

----------------------------------------------------------------------------
(* Bounds of the model *)

MaxLen == 3
MaxPairs == 2
MaxChain == 3
MaxSpaces == 2
MaxNodes == 4

----------------------------------------------------------------------------
(* Values *)

Panic == <<"Panic">>
None == <<"None">>
AtomTrue == <<"AtomTrue">>
AtomFalse == <<"AtomFalse">>

AtomChars == {"P", "Q", "R", "S", "T"}
BinaryChars == {"&", "|", ">", "#"}
NotChar == "~"
Whitespace == {" ", "\t"}

BinaryKinds == {"And", "Or", "IfThen", "Iff"}
UnaryKinds == {"Not", "Possibly", "Necessarily", "Parenthesised"}

----------------------------------------------------------------------------
(* String helpers of the standard library, as the code uses them *)

IsNotWhitespace(c) == c \notin Whitespace

\* prop.retain(|c| !c.is_whitespace())
\* (faulty variant: strips spaces only)
RetainIgnoreTabs(s) == SelectSeq(s, LAMBDA c : c # " ")
RetainNonWhitespace(s) == SelectSeq(s, IsNotWhitespace)

\* index of the first occurrence of d in s at or after i, Len(s)+1 if none
RECURSIVE FindFrom(_, _, _)
FindFrom(s, d, i) ==
    IF i > Len(s) THEN Len(s) + 1
    ELSE IF s[i] = d THEN i
    ELSE FindFrom(s, d, i + 1)

\* str::split(d): the pieces between the delimiters, n delimiters give n+1 pieces
RECURSIVE Split(_, _)
Split(s, d) ==
    LET k == FindFrom(s, d, 1) IN
    IF k > Len(s) THEN <<s>>
    ELSE <<SubSeq(s, 1, k - 1)>> \o Split(SubSeq(s, k + 1, Len(s)), d)

----------------------------------------------------------------------------
(* evaluate *)

\* faulty variant: Iff evaluated as Or
EvalConnectiveIffAsOr(kind, l, r) ==
    CASE kind = "And" -> l /\ r
      [] kind = "Or" -> l \/ r
      [] kind = "IfThen" -> (~l) \/ r
      [] kind = "Iff" -> l \/ r

\* the And / Or / IfThen / Iff arms of evaluate
EvalConnective(kind, l, r) ==
    CASE kind = "And" -> l /\ r
      [] kind = "Or" -> l \/ r
      [] kind = "IfThen" -> (~l) \/ r
      [] kind = "Iff" -> l = r

RECURSIVE evaluate(_)
evaluate(expression) ==
    CASE expression = AtomTrue -> TRUE
      [] expression = AtomFalse -> FALSE
      [] expression[1] \in BinaryKinds ->
            EvalConnective(expression[1], evaluate(expression[2]), evaluate(expression[3]))
      [] expression[1] = "Not" -> ~evaluate(expression[2])
      [] expression[1] = "Possibly" -> evaluate(expression[2])
      [] expression[1] = "Necessarily" -> evaluate(expression[2])
      [] expression[1] = "Parenthesised" -> evaluate(expression[2])

----------------------------------------------------------------------------
(* parse_proposition *)

\* faulty variant: an absent atom defaults to False
LookupAtomDefaultFalse(c, m) ==
    IF c \notin DOMAIN m THEN AtomFalse
    ELSE IF m[c] = "T" THEN AtomTrue
    ELSE IF m[c] = "F" THEN AtomFalse
    ELSE Panic

\* atom_map.get(&c).unwrap(), then the match on 'T' / 'F' / _
LookupAtom(c, m) ==
    IF c \notin DOMAIN m THEN Panic
    ELSE IF m[c] = "T" THEN AtomTrue
    ELSE IF m[c] = "F" THEN AtomFalse
    ELSE Panic

KindOf(c) ==
    CASE c = "&" -> "And"
      [] c = "|" -> "Or"
      [] c = ">" -> "IfThen"
      [] c = "#" -> "Iff"

\* faulty variant: operands swapped
BinaryNodeSwapped(c, left, right) == <<KindOf(c), right, left>>

\* Proposition::Connective(Connective::X(Box::new(left), Box::new(right)))
BinaryNode(c, left, right) == <<KindOf(c), left, right>>

\* the inner loop on '(': the index of the character at which paren_count
\* reaches 0, Len(s)+1 when the characters run out first
RECURSIVE CloseIndex(_, _, _)
CloseIndex(s, i, paren_count) ==
    IF i > Len(s) THEN Len(s) + 1
    ELSE LET n == CASE s[i] = "(" -> paren_count + 1
                    [] s[i] = ")" -> paren_count - 1
                    [] OTHER -> paren_count
         IN IF n = 0 THEN i ELSE CloseIndex(s, i + 1, n)

\* faulty variant: the capture stops at the first ')'
CaptureEndFirstClose(s, i) == FindFrom(s, ")", i)
CaptureEnd(s, i) == CloseIndex(s, i, 1)

RECURSIVE parse_proposition(_, _)
RECURSIVE Scan(_, _, _, _)

\* the while loop: s is the text, i the position of current_char
Scan(s, i, current_prop, m) ==
    IF i > Len(s)
    THEN IF current_prop = None THEN Panic ELSE current_prop
    ELSE LET c == s[i] IN
      CASE c \in AtomChars ->
             LET atom == LookupAtom(c, m) IN
             IF atom = Panic THEN Panic ELSE Scan(s, i + 1, atom, m)
        [] c \in BinaryChars ->
             IF current_prop = None THEN Panic
             ELSE LET right == parse_proposition(SubSeq(s, i + 1, Len(s)), m) IN
                  IF right = Panic THEN Panic ELSE BinaryNode(c, current_prop, right)
        [] c = NotChar ->
             LET left == parse_proposition(SubSeq(s, i + 1, Len(s)), m) IN
             IF left = Panic THEN Panic ELSE <<"Not", left>>
        [] c = "(" ->
             LET k == CaptureEnd(s, i + 1)
                 inner == parse_proposition(SubSeq(s, i + 1, k - 1), m)
             IN IF inner = Panic THEN Panic
                ELSE Scan(s, k + 1, <<"Parenthesised", inner>>, m)
        [] OTHER -> Panic

parse_proposition(prop, m) == Scan(RetainNonWhitespace(prop), 1, None, m)

----------------------------------------------------------------------------
(* parse_proposition_string *)

EmptyMap == [x \in {} |-> "T"]

\* faulty variant: an existing binding is kept
MapInsertKeepFirst(m, k, v) ==
    [x \in DOMAIN m \cup {k} |-> IF x \in DOMAIN m THEN m[x] ELSE v]

\* atom_map.insert(atom_name, atom_value)
MapInsert(m, k, v) ==
    [x \in DOMAIN m \cup {k} |-> IF x = k THEN v ELSE m[x]]

\* the for loop over the assignment pairs; ok is FALSE when an unwrap panics
RECURSIVE BuildAtomMap(_, _)
BuildAtomMap(atoms, m) ==
    IF atoms = <<>> THEN [ok |-> TRUE, map |-> m]
    ELSE LET atom == Split(Head(atoms), "=") IN
         IF Len(atom[1]) = 0 THEN [ok |-> FALSE, map |-> m]
         ELSE IF Len(atom) < 2 THEN [ok |-> FALSE, map |-> m]
         ELSE IF Len(atom[2]) = 0 THEN [ok |-> FALSE, map |-> m]
         ELSE BuildAtomMap(Tail(atoms), MapInsert(m, atom[1][1], atom[2][1]))

\* the pieces of the stripped input around ';'
Pieces(prop) == Split(RetainNonWhitespace(prop), ";")

\* the atom map after the for loop (as far as the loop got)
AtomMapOf(prop) ==
    LET pieces == Pieces(prop) IN
    IF Len(pieces) < 2 THEN [ok |-> FALSE, map |-> EmptyMap]
    ELSE BuildAtomMap(Split(pieces[2], ","), EmptyMap)

parse_proposition_string(prop) ==
    LET built == AtomMapOf(prop) IN
    IF ~built.ok THEN Panic
    ELSE parse_proposition(Pieces(prop)[1], built.map)

----------------------------------------------------------------------------
(* Inputs *)

FormulaAlphabet == {"P", "Q", "&", "~", "(", ")"}

RECURSIVE Texts(_, _)
Texts(alphabet, n) ==
    IF n = 0 THEN {<<>>}
    ELSE LET shorter == Texts(alphabet, n - 1) IN
         shorter \cup {<<c>> \o t : c \in alphabet, t \in {u \in shorter : Len(u) = n - 1}}

PairTexts == {<<"P", "=", "T">>, <<"P", "=", "F">>, <<"Q", "=", "T">>, <<"Q", "=", "X">>}

RECURSIVE AssignmentTexts(_)
AssignmentTexts(n) ==
    IF n = 1 THEN PairTexts
    ELSE LET shorter == AssignmentTexts(n - 1) IN
         shorter \cup {p \o <<",">> \o t : p \in PairTexts, t \in shorter}

Inputs ==
    {f \o <<";">> \o a : f \in Texts(FormulaAlphabet, MaxLen), a \in AssignmentTexts(MaxPairs)}

\* operands of a chain: an atom or a parenthesised group
Operands ==
    { <<"P">>,
      <<"(", "Q", ")">>,
      <<"(", "(", "~", "P", ")", ")">>,
      <<"(", "P", "|", "Q", ")">> }

\* operand (connective operand)*, with at most n operands
RECURSIVE ChainTexts(_)
ChainTexts(n) ==
    IF n = 1 THEN Operands
    ELSE LET shorter == ChainTexts(n - 1) IN
         shorter \cup {a \o <<c>> \o t : a \in Operands, c \in BinaryChars, t \in shorter}

ChainAssignments ==
    { <<"P", "=", "T", ",", "Q", "=", "F">>,
      <<"Q", "=", "T", ",", "P", "=", "F">> }

ChainInputs ==
    {f \o <<";">> \o a : f \in ChainTexts(MaxChain), a \in ChainAssignments}

\* the input strings of the test parses_proposition_strings (lines 183, 184),
\* whitespace removed, and three inputs that panic
TestInputs ==
    { <<"P", "&", "Q", ";", "P", "=", "T", ",", "Q", "=", "F">>,
      <<"~", "(", "P", "|", "Q", ")", ";", "P", "=", "F", ",", "Q", "=", "F">>,
      <<"P", "&", ";", "P", "=", "T">>,
      <<"P", ";", "P">>,
      <<"P">> }

\* every Proposition with exactly n nodes
RECURSIVE TreesOfSize(_)
TreesOfSize(n) ==
    IF n = 1 THEN {AtomTrue, AtomFalse}
    ELSE {<<k, p>> : k \in UnaryKinds, p \in TreesOfSize(n - 1)}
         \cup UNION { {<<k, l, r>> : k \in BinaryKinds, l \in TreesOfSize(i),
                                     r \in TreesOfSize(n - 1 - i)} : i \in 1..(n - 2) }

Trees == UNION {TreesOfSize(n) : n \in 1..MaxNodes}

----------------------------------------------------------------------------
(* The calls *)

Init ==
    /\ input \in Inputs
    /\ pc = "start"
    /\ atom_map = EmptyMap
    /\ tree = None
    /\ result = FALSE

\* evaluate_propositional_string, line 4: parse_proposition_string(prop)
ParsePropositionString ==
    /\ pc = "start"
    /\ tree' = parse_proposition_string(input)
    /\ atom_map' = AtomMapOf(input).map
    /\ pc' = IF tree' = Panic THEN "panicked" ELSE "parsed"
    /\ UNCHANGED <<input, result>>

\* evaluate_propositional_string, line 5: evaluate(proposition)
Evaluate ==
    /\ pc = "parsed"
    /\ result' = evaluate(tree)
    /\ pc' = "done"
    /\ UNCHANGED <<input, atom_map, tree>>

Next == ParsePropositionString \/ Evaluate

Spec == Init /\ [][Next]_vars

----------------------------------------------------------------------------
(* Chains of operands and binary connectives *)

InitChain ==
    /\ input \in ChainInputs
    /\ pc = "start"
    /\ atom_map = EmptyMap
    /\ tree = None
    /\ result = FALSE

SpecChain == InitChain /\ [][Next]_vars

----------------------------------------------------------------------------
(* evaluate on Proposition values built directly, as the tests do *)

InitEval ==
    /\ input = <<>>
    /\ pc = "parsed"
    /\ atom_map = EmptyMap
    /\ tree \in Trees
    /\ result = FALSE

NextEval == Evaluate

SpecEval == InitEval /\ [][NextEval]_vars

----------------------------------------------------------------------------
(* Callers that differ in the whitespace of the string they pass *)

WhitespaceCount(s) == Cardinality({i \in 1..Len(s) : s[i] \in Whitespace})

InsertWhitespace ==
    /\ pc = "start"
    /\ WhitespaceCount(input) < MaxSpaces
    /\ \E i \in 0..Len(input), w \in Whitespace :
          input' = SubSeq(input, 1, i) \o <<w>> \o SubSeq(input, i + 1, Len(input))
    /\ UNCHANGED <<pc, atom_map, tree, result>>

RemoveWhitespace ==
    /\ pc = "start"
    /\ \E i \in 1..Len(input) :
          /\ input[i] \in Whitespace
          /\ input' = SubSeq(input, 1, i - 1) \o SubSeq(input, i + 1, Len(input))
    /\ UNCHANGED <<pc, atom_map, tree, result>>

InitWs ==
    /\ input \in TestInputs
    /\ pc = "start"
    /\ atom_map = EmptyMap
    /\ tree = None
    /\ result = FALSE

NextWs == InsertWhitespace \/ RemoveWhitespace \/ ParsePropositionString \/ Evaluate

SpecWs == InitWs /\ [][NextWs]_vars

----------------------------------------------------------------------------
(* Vocabulary of the properties, read off the input text *)

Returned == pc \in {"parsed", "panicked", "done"}

\* the formula text: the stripped input up to the first ';'
FormulaText == Pieces(input)[1]

\* the assignment pairs, in the order of the list
PairsOf(s) == Split(Pieces(s)[2], ",")
NameOf(pair) == pair[1]
ValueOf(pair) == Split(pair, "=")[2][1]
Names(s) == {NameOf(PairsOf(s)[i]) : i \in 1..Len(PairsOf(s))}
LastPair(s, k) ==
    LET pairs == PairsOf(s)
        last == CHOOSE i \in 1..Len(pairs) :
                    /\ NameOf(pairs[i]) = k
                    /\ \A j \in (i + 1)..Len(pairs) : NameOf(pairs[j]) # k
    IN pairs[last]

CountOf(s, chars) == Cardinality({i \in 1..Len(s) : s[i] \in chars})

\* every ')' of s closes an earlier '(' of s and no '(' stays open
RECURSIVE BalancedFrom(_, _, _)
BalancedFrom(s, i, open) ==
    IF i > Len(s) THEN open = 0
    ELSE IF s[i] = "(" THEN BalancedFrom(s, i + 1, open + 1)
    ELSE IF s[i] = ")" THEN open > 0 /\ BalancedFrom(s, i + 1, open - 1)
    ELSE BalancedFrom(s, i + 1, open)
Balanced(s) == BalancedFrom(s, 1, 0)

\* an atom, or a parenthesised balanced text
IsOperand(s) ==
    \/ Len(s) = 1 /\ s[1] \in AtomChars
    \/ /\ Len(s) >= 2
       /\ s[1] = "("
       /\ s[Len(s)] = ")"
       /\ Balanced(SubSeq(s, 2, Len(s) - 1))

RECURSIVE AtomLeaves(_)
AtomLeaves(t) ==
    IF Len(t) = 1 THEN 1
    ELSE IF Len(t) = 2 THEN AtomLeaves(t[2])
    ELSE AtomLeaves(t[2]) + AtomLeaves(t[3])

RECURSIVE ConnectiveNodes(_)
ConnectiveNodes(t) ==
    IF Len(t) = 1 THEN 0
    ELSE IF Len(t) = 2
         THEN (IF t[1] = "Parenthesised" THEN 0 ELSE 1) + ConnectiveNodes(t[2])
    ELSE 1 + ConnectiveNodes(t[2]) + ConnectiveNodes(t[3])

----------------------------------------------------------------------------
(* Properties *)

\* C1: evaluate returns the value of the two-valued semantics: Atom(True) is
\* true, Atom(False) is false, And / Or / IfThen / Iff / Not follow their truth
\* tables on the values of their children, and Parenthesised, Possibly and
\* Necessarily have the value of their child.
C1_EvaluateIsTwoValuedSemantics ==
    pc = "done" =>
      /\ tree = AtomTrue => result = TRUE
      /\ tree = AtomFalse => result = FALSE
      /\ tree[1] = "And" => result = (evaluate(tree[2]) /\ evaluate(tree[3]))
      /\ tree[1] = "Or" => result = (evaluate(tree[2]) \/ evaluate(tree[3]))
      /\ tree[1] = "IfThen" => result = ((~evaluate(tree[2])) \/ evaluate(tree[3]))
      /\ tree[1] = "Iff" => result = (evaluate(tree[2]) <=> evaluate(tree[3]))
      /\ tree[1] = "Not" => result = ~evaluate(tree[2])
      /\ tree[1] \in {"Parenthesised", "Possibly", "Necessarily"} =>
            result = evaluate(tree[2])

C1_Witness ==
    /\ pc = "done"
    /\ tree = <<"Iff", <<"Not", AtomTrue>>, AtomFalse>>
    /\ result = TRUE

\* C2: a text a op1 b op2 c, with a, b, c operands and op1, op2 any binary
\* connectives, parses to op1(a, op2(b, c)) and never to op2(op1(a, b), c).
C2_RightToLeftNoPrecedence ==
    (Returned /\ AtomMapOf(input).ok) =>
      LET f == FormulaText IN
      \A i, j \in 1..Len(f) :
        ( /\ i < j
          /\ f[i] \in BinaryChars
          /\ f[j] \in BinaryChars
          /\ IsOperand(SubSeq(f, 1, i - 1))
          /\ IsOperand(SubSeq(f, i + 1, j - 1))
          /\ IsOperand(SubSeq(f, j + 1, Len(f))) )
        => LET a == parse_proposition(SubSeq(f, 1, i - 1), atom_map)
               b == parse_proposition(SubSeq(f, i + 1, j - 1), atom_map)
               c == parse_proposition(SubSeq(f, j + 1, Len(f)), atom_map)
               op1 == KindOf(f[i])
               op2 == KindOf(f[j])
           IN IF Panic \in {a, b, c} THEN tree = Panic
              ELSE /\ tree = <<op1, a, <<op2, b, c>>>>
                   /\ tree # <<op2, <<op1, a, b>>, c>>

C2_Witness ==
    /\ pc = "done"
    /\ FormulaText = <<"(", "P", "|", "Q", ")", ">", "P", "&", "(", "(", "~", "P", ")", ")">>
    /\ tree[1] = "IfThen"
    /\ tree[3][1] = "And"

\* C3: a returned tree accounts for the whole formula text: one Atom leaf per
\* atom identifier occurrence and one connective node per connective symbol.
C3_TreeAccountsForWholeInput ==
    (Returned /\ tree # Panic) =>
      /\ AtomLeaves(tree) = CountOf(FormulaText, AtomChars)
      /\ ConnectiveNodes(tree) = CountOf(FormulaText, BinaryChars \cup {NotChar})

\* C4: a formula that mentions an atom identifier with no entry in the
\* assignment list ends in a panic, wherever the identifier stands; so the
\* atoms of a returned tree all have an entry in the atom map.
C4_UnknownAtomFails ==
    (Returned /\ Len(Pieces(input)) >= 2) =>
      LET f == FormulaText
          named == Names(input)
      IN /\ (\E i \in 1..Len(f) : f[i] \in AtomChars /\ f[i] \notin named)
            => (tree = Panic /\ pc = "panicked")
         /\ tree # Panic =>
               \A i \in 1..Len(f) : f[i] \in AtomChars => f[i] \in DOMAIN atom_map

C4_Witness ==
    /\ pc = "panicked"
    /\ AtomMapOf(input).ok
    /\ FormulaText = <<"(", "Q", ")">>
    /\ Names(input) = {"P"}
    /\ ValueOf(PairsOf(input)[1]) = "T"

\* C5: a formula text in which some '(' has no matching ')' does not parse.
C5_UnmatchedParenthesisFails ==
    (Returned /\ Len(Pieces(input)) >= 2) =>
      ((\E i \in 1..Len(FormulaText) :
           /\ FormulaText[i] = "("
           /\ \A k \in (i + 1)..Len(FormulaText) :
                 ~(FormulaText[k] = ")" /\ Balanced(SubSeq(FormulaText, i + 1, k - 1))))
       => tree = Panic)

\* C6: an assignment pair whose value is neither T nor F makes the call fail,
\* whether or not the formula mentions the atom.
C6_InvalidTruthTokenFails ==
    (Returned /\ AtomMapOf(input).ok) =>
      ((\E i \in 1..Len(PairsOf(input)) : ValueOf(PairsOf(input)[i]) \notin {"T", "F"})
       => tree = Panic)

\* C7: inserting or deleting whitespace anywhere in the input string changes
\* neither the parsed tree, nor the evaluated boolean, nor whether the call fails.
C7_WhitespaceInsignificant ==
    [][(pc = "start" /\ pc' = "start") =>
          LET before == parse_proposition_string(input)
              after == parse_proposition_string(input')
          IN /\ after = before
             /\ before # Panic => evaluate(after) = evaluate(before)]_vars

C7_Witness ==
    /\ pc = "done"
    /\ input = <<"P", " ", "&", "\t", "Q", ";", "P", "=", "T", ",", "Q", "=", "F">>
    /\ tree = <<"And", AtomTrue, AtomFalse>>
    /\ result = FALSE

\* C8: after the assignment list is processed, the atom map binds each atom
\* named in the list to the value of the last pair naming it, and that is the
\* value the atom takes in the parsed tree.
C8_LastAssignmentWins ==
    (Returned /\ AtomMapOf(input).ok) =>
      LET f == FormulaText
          named == Names(input)
      IN /\ DOMAIN atom_map = named
         /\ \A k \in named : atom_map[k] = ValueOf(LastPair(input, k))
         /\ \A k \in named :
               (f = <<k>> /\ k \in AtomChars /\ tree # Panic) =>
                  tree = IF ValueOf(LastPair(input, k)) = "T" THEN AtomTrue ELSE AtomFalse

C8_Witness ==
    /\ pc = "done"
    /\ FormulaText = <<"P">>
    /\ PairsOf(input) = << <<"P", "=", "T">>, <<"P", "=", "F">> >>
    /\ atom_map["P"] = "F"
    /\ result = FALSE

\* C9: on '(' the parser captures the text up to the matching ')', makes it a
\* Parenthesised sub-tree and goes on after that ')': "(A) op B" with A balanced
\* parses to op(Parenthesised(parse A), parse B).
C9_ParenthesisedGroupThenConnective ==
    (Returned /\ AtomMapOf(input).ok) =>
      LET f == FormulaText IN
      \A k \in 2..(Len(f) - 1) :
        ( /\ f[1] = "("
          /\ f[k] = ")"
          /\ f[k + 1] \in BinaryChars
          /\ Balanced(SubSeq(f, 2, k - 1)) )
        => LET a == parse_proposition(SubSeq(f, 2, k - 1), atom_map)
               b == parse_proposition(SubSeq(f, k + 2, Len(f)), atom_map)
           IN tree = IF Panic \in {a, b} THEN Panic
                     ELSE <<KindOf(f[k + 1]), <<"Parenthesised", a>>, b>>

C9_Witness ==
    /\ pc = "done"
    /\ FormulaText = <<"(", "(", "~", "P", ")", ")", "#", "(", "Q", ")", "|", "P">>
    /\ tree[1] = "Iff"
    /\ tree[2][1] = "Parenthesised"
    /\ tree[2][2][1] = "Parenthesised"
    /\ tree[2][2][2][1] = "Not"
    /\ tree[3][1] = "Or"

\* C10: a formula in which an atom or a parenthesised group stands immediately
\* before the negation symbol does not parse.
C10_NegationAfterOperandFails ==
    (Returned /\ Len(Pieces(input)) >= 2) =>
      ((\E i \in 2..Len(FormulaText) :
           /\ FormulaText[i] = NotChar
           /\ FormulaText[i - 1] \in AtomChars \cup {")"})
       => tree = Panic)

====
